---- MODULE Spec2Model ----
(***************************************************************************)
(* A model of the concurrent crawl orchestrator of checklinks              *)
(* (src/checklinks.go, lines 1-267): CrawlPage with its dispatcher         *)
(* goroutine, ProcessNode, ProcessLeaf and the URL helpers.                 *)
(*                                                                         *)
(* Strings are sequences of tokens: "http://h/a?q" is                      *)
(* <<"http", ":", "//", "h", "/", "a", "?", "q">>.  The separators         *)
(* ":", "//", "/", "?", "#" are tokens of their own, so that the prefix    *)
(* and suffix tests and the concatenations of the code are sequence        *)
(* operations.                                                             *)
(***************************************************************************)
EXTENDS Integers, Sequences, FiniteSets, TLC

(***************************************************************************)
(* Bounds of the model.                                                    *)
(***************************************************************************)

\* Size of the token pool.  The source sets 64 (src/checklinks.go:18); the
\* model scales the pool down so that the pool can be exhausted by the few
\* tasks of a world.
Parallelism == 2

\* Cap on the number of tasks spawned in one run (the code has none).
MaxTasks == 7

(***************************************************************************)
(* net/http status codes the code and the worlds refer to.                 *)
(***************************************************************************)
StatusOK == 200
StatusNotFound == 404
StatusMethodNotAllowed == 405

(***************************************************************************)
(* Sequences of tokens.                                                    *)
(***************************************************************************)
Seps == {":", "//", "/", "?", "#"}

\* The token that stands for an invalid percent escape such as "%zz".
BadEscape == "%zz"

Drop(s, n) == IF n >= Len(s) THEN << >> ELSE SubSeq(s, n + 1, Len(s))

Take(s, n) == IF n <= 0 THEN << >> ELSE SubSeq(s, 1, IF n > Len(s) THEN Len(s) ELSE n)

\* Index of the first occurrence of token c in s, 0 when there is none.
Index(s, c) ==
  IF \E i \in 1..Len(s) : s[i] = c
  THEN CHOOSE i \in 1..Len(s) : s[i] = c /\ \A j \in 1..(i - 1) : s[j] # c
  ELSE 0

HasPrefix(s, c) == Len(s) > 0 /\ s[1] = c

HasSuffix(s, c) == Len(s) > 0 /\ s[Len(s)] = c

Contains(s, c) == \E i \in 1..Len(s) : s[i] = c

(***************************************************************************)
(* url.URL: Scheme, Opaque, Host (name and port), Path, RawQuery,          *)
(* Fragment.  Query and fragment are kept as token sequences.              *)
(***************************************************************************)
NoHost == [name |-> "", port |-> ""]

MkURL(s, h, p) ==
  [Scheme |-> s, Opaque |-> << >>, Host |-> h, Path |-> p,
   RawQuery |-> << >>, Fragment |-> << >>]

\* url.URL.Hostname: the host without its port.
Hostname(u) == u.Host.name

HostString(h) ==
  IF h = NoHost THEN << >>
  ELSE IF h.port = "" THEN <<h.name>> ELSE <<h.name, ":", h.port>>

\* url.URL.String.
String(u) ==
  LET scheme == IF u.Scheme # "" THEN <<u.Scheme, ":">> ELSE << >>
      auth   == IF u.Scheme # "" \/ u.Host # NoHost
                THEN (IF u.Host # NoHost \/ u.Path # << >> THEN <<"//">> ELSE << >>)
                     \o HostString(u.Host)
                ELSE << >>
      slash  == IF u.Path # << >> /\ u.Path[1] # "/" /\ u.Host # NoHost
                THEN <<"/">> ELSE << >>
      body   == IF u.Opaque # << >> THEN u.Opaque ELSE auth \o slash \o u.Path
      query  == IF u.RawQuery # << >> THEN <<"?">> \o u.RawQuery ELSE << >>
      frag   == IF u.Fragment # << >> THEN <<"#">> \o u.Fragment ELSE << >>
  IN scheme \o body \o query \o frag

\* url.Parse's authority: "host" or "host:port".
ParseAuthority(a) ==
  IF a = << >> THEN NoHost
  ELSE IF Len(a) >= 3 /\ a[2] = ":" THEN [name |-> a[1], port |-> a[3]]
  ELSE [name |-> a[1], port |-> ""]

\* url.Parse: [err |-> TRUE] or [err |-> FALSE, url |-> the URL].
ParseURL(raw) ==
  LET hashAt   == Index(raw, "#")
      noFrag   == IF hashAt = 0 THEN raw ELSE Take(raw, hashAt - 1)
      frag     == IF hashAt = 0 THEN << >> ELSE Drop(raw, hashAt)
      hasSch   == Len(noFrag) >= 2 /\ noFrag[2] = ":" /\ noFrag[1] \notin Seps
      scheme   == IF hasSch THEN noFrag[1] ELSE ""
      afterSch == IF hasSch THEN Drop(noFrag, 2) ELSE noFrag
      qAt      == Index(afterSch, "?")
      rest     == IF qAt = 0 THEN afterSch ELSE Take(afterSch, qAt - 1)
      query    == IF qAt = 0 THEN << >> ELSE Drop(afterSch, qAt)
      rooted   == HasPrefix(rest, "/") \/ HasPrefix(rest, "//")
      opaque   == scheme # "" /\ ~rooted
      hasAuth  == HasPrefix(rest, "//")
      afterSl  == Drop(rest, 1)
      pathAt   == Index(afterSl, "/")
      auth     == IF pathAt = 0 THEN afterSl ELSE Take(afterSl, pathAt - 1)
      path     == IF hasAuth
                  THEN (IF pathAt = 0 THEN << >> ELSE Drop(afterSl, pathAt - 1))
                  ELSE rest
      firstSeg == IF Index(rest, "/") = 0 THEN rest ELSE Take(rest, Index(rest, "/") - 1)
      bad      == \/ HasPrefix(noFrag, ":")
                  \/ Contains(raw, BadEscape)
                  \/ (~rooted /\ scheme = "" /\ Contains(firstSeg, ":"))
  IN IF bad THEN [err |-> TRUE]
     ELSE IF opaque
     THEN [err |-> FALSE,
           url |-> [Scheme |-> scheme, Opaque |-> rest, Host |-> NoHost,
                    Path |-> << >>, RawQuery |-> query, Fragment |-> frag]]
     ELSE [err |-> FALSE,
           url |-> [Scheme |-> scheme, Opaque |-> << >>,
                    Host |-> IF hasAuth THEN ParseAuthority(auth) ELSE NoHost,
                    Path |-> path, RawQuery |-> query, Fragment |-> frag]]


(***************************************************************************)
(* The web a crawl runs against: a seed address and, for every address a   *)
(* request can be made to, what the request meets.  kind is "reqerr" (the  *)
(* request cannot be constructed), "neterr" (the client returns an error)  *)
(* or "http" (a response with a status to GET, a status to HEAD and the    *)
(* href attributes of the <a> tags of its body, in document order).        *)
(***************************************************************************)
Resp(k, get, head, hrefs) == [kind |-> k, status |-> get, head |-> head, hrefs |-> hrefs]

Page(hrefs) == Resp("http", StatusOK, StatusOK, hrefs)

Site == <<"http", ":", "//", "h">>

Ext == <<"http", ":", "//", "x">>

Worlds == {"e2e", "forms", "dirs", "leaves", "errs", "proto"}

SeedAddr(w) == IF w \in {"e2e", "leaves"} THEN Site ELSE Site \o <<"/">>

Pages(w) ==
  CASE w = "e2e" ->
         {<<Site \o <<"/">>,
            Page(<< <<"/", "ok">>, <<"/", "missing">>, Ext \o <<"/">> >>)>>,
          <<Site \o <<"/", "ok">>, Page(<< >>)>>,
          <<Site \o <<"/", "missing">>,
            Resp("http", StatusNotFound, StatusNotFound, << >>)>>,
          <<Ext \o <<"/">>,
            Resp("http", StatusOK, StatusMethodNotAllowed, << >>)>>}
    [] w = "forms" ->
         {<<Site \o <<"/">>,
            Page(<< <<"/", "a">>, Site \o <<"/", "a", "?", "q">>, <<"/">> >>)>>,
          <<Site \o <<"/", "a">>,
            Page(<< <<"mailto", ":", "m">>, <<":", "bad">>, <<"/", "a">> >>)>>}
    [] w = "dirs" ->
         {<<Site \o <<"/">>,
            Page(<< <<"/", "d1", "/">>, <<"/", "d2", "/">> >>)>>,
          <<Site \o <<"/", "d1", "/">>, Page(<< <<"p">> >>)>>,
          <<Site \o <<"/", "d2", "/">>, Page(<< <<"p">> >>)>>,
          <<Site \o <<"/", "d1", "/", "p">>, Page(<< <<"/", "d1", "/">> >>)>>,
          <<Site \o <<"/", "d2", "/", "p">>, Page(<< >>)>>}
    [] w = "leaves" ->
         {<<Site \o <<"/">>,
            Page(<< Ext \o <<"/", "1">>, Ext \o <<"/", "2">>,
                    Ext \o <<"/", "3">>, <<"/", "gone">> >>)>>,
          <<Ext \o <<"/", "1">>, Page(<< >>)>>,
          <<Ext \o <<"/", "2">>,
            Resp("http", 204, 204, << >>)>>,
          <<Ext \o <<"/", "3">>, Resp("neterr", 0, 0, << >>)>>,
          <<Site \o <<"/", "gone">>, Resp("neterr", 0, 0, << >>)>>}
    [] w = "errs" ->
         {<<Site \o <<"/">>,
            Page(<< Ext \o <<"/", "4">>, <<"/", "r">> >>)>>,
          <<Ext \o <<"/", "4">>, Resp("reqerr", 0, 0, << >>)>>,
          <<Site \o <<"/", "r">>, Resp("reqerr", 0, 0, << >>)>>}
    [] w = "proto" ->
         {<<Site \o <<"/">>,
            Page(<< <<"//", "x", "/", "p">>, <<"#", "f">>, << >> >>)>>,
          <<<<"//", "x", "/", "p">>, Resp("neterr", 0, 0, << >>)>>}

\* What a request to address u meets in world w; an address the world does
\* not serve answers 404.
Get(w, u) ==
  IF \E p \in Pages(w) : p[1] = u
  THEN (CHOOSE p \in Pages(w) : p[1] = u)[2]
  ELSE Resp("http", StatusNotFound, StatusNotFound, << >>)

\* Every address a world contains: the seeds and the hrefs of the pages.
Addresses ==
  {SeedAddr(w) : w \in Worlds} \cup
  UNION {{p[2].hrefs[i] : i \in 1..Len(p[2].hrefs)} :
           p \in UNION {Pages(w) : w \in Worlds}}

\* ParseURL, tabulated over the addresses of the worlds.
ParseTable == [a \in Addresses |-> ParseURL(a)]

Parse(raw) == ParseTable[raw]

(***************************************************************************)
(* The URL classifier and qualifier.                                       *)
(***************************************************************************)

\* QualifyInternalURL: scheme and host of the page; the link's path when it
\* starts with "/", otherwise the page's path, one "/" unless the page's
\* path ends with one, and the link's path.  Query and fragment are dropped.
\* QualifyInternalURL with the link's path taken as it is.
QualifyInternalURLRooted(page, link) == MkURL(page.Scheme, page.Host, link.Path)

QualifyInternalURL(page, link) ==
  LET path == IF HasPrefix(link.Path, "/")
              THEN link.Path
              ELSE IF HasSuffix(page.Path, "/")
                   THEN page.Path \o link.Path
                   ELSE page.Path \o <<"/">> \o link.Path
  IN MkURL(page.Scheme, page.Host, path)

\* A Link: the URL and the URL of the page it was found on.
MkLink(u, orig) == [URL |-> u, Orig |-> orig]

\* NewLink: parses the address; an error when it does not parse.
NewLink(address, site) ==
  LET p == Parse(address)
  IN IF p.err THEN [err |-> TRUE]
     ELSE [err |-> FALSE, link |-> MkLink(p.url, site)]

\* IsInternal without the comparison of the hosts.
IsInternalAlways(l) == TRUE

IsInternal(l) == Hostname(l.URL) = Hostname(l.Orig) \/ Hostname(l.URL) = ""

\* IsCrawlable with every scheme accepted.
IsCrawlableAlways(l) == TRUE

IsCrawlable(l) == l.URL.Scheme = "https" \/ l.URL.Scheme = "http" \/ l.URL.Scheme = ""

\* The site argument of CrawlPage, as cmd/checklinks.go parses it.
Seed(w) == Parse(SeedAddr(w)).url


(***************************************************************************)
(* Results.  An error is a kind and, for a status failure, the status:     *)
(* "nil", "malformed" (NewLink failed), "notcrawlable" (errNotCrawlable),  *)
(* "request" (the request could not be constructed), "transport" (the      *)
(* client returned an error), "status" (GET <code> <text> <url>).          *)
(***************************************************************************)
Err(k, code) == [kind |-> k, code |-> code]

NilErr == Err("nil", 0)

\* A message a task has sent: a candidate link ("link"), a Result ("res")
\* or the completion signal ("done", which carries nothing: its err and
\* link fields are fillers).
Msg(k, e, l) == [k |-> k, err |-> e, link |-> l]

\* FetchDocument: an error when the request cannot be constructed or the
\* client fails; otherwise the parsed body, whatever the status.
FetchDocument(r) ==
  IF r.kind = "reqerr" THEN [err |-> Err("request", 0), hrefs |-> << >>]
  ELSE IF r.kind = "neterr" THEN [err |-> Err("transport", 0), hrefs |-> << >>]
  ELSE [err |-> NilErr, hrefs |-> r.hrefs]

\* The error of the Result ProcessLeaf sends for the outcome r of its request.
LeafErr(r) ==
  IF r.kind = "reqerr" THEN Err("request", 0)
  ELSE IF r.kind = "neterr" THEN Err("transport", 0)
  ELSE IF r.status # StatusOK THEN Err("status", r.status)
  ELSE NilErr

\* IsVisited with the map never consulted.
IsVisitedNever(v, u) == FALSE

\* The dispatcher's test of the visited map.
IsVisited(v, u) == u \in v

\* ExitPc with the completion signal sent at the end of the function only,
\* and not before the early return after a failed fetch.
ExitPcNoSignalOnError(path) == IF path = "fetcherr" THEN "finished" ELSE "defer"

\* Where a task continues when its function returns, on the named exit
\* path ("fetcherr", "reqerr", "end"): at the deferred send on done.
ExitPc(path) == "defer"

(***************************************************************************)
(* State.                                                                  *)
(*   world    the web the run crawls (fixed by Init)                       *)
(*   flags    the arguments ok, ignore and fail of CrawlPage (fixed by     *)
(*            Init)                                                        *)
(*   fn       the call of one of the functions that are checked on their   *)
(*            own (Functions below); << >> in a crawl                      *)
(*   mainPc   the goroutine calling CrawlPage: "send" (before              *)
(*            links <- seed), "wait" (in wg.Wait), "returned"              *)
(*   dispPc   the dispatcher goroutine: "select" (in the select) or        *)
(*            "link" (handling the link it received)                       *)
(*   cur      the link the dispatcher is handling: << >> or <<l>>          *)
(*   visited  the dispatcher's visited map (its key set)                   *)
(*   wg       the WaitGroup counter                                        *)
(*   tokens   the number of tokens in the tokens channel                   *)
(*   tasks    the goroutines spawned so far, in spawn order                *)
(***************************************************************************)
VARIABLES world, flags, fn, mainPc, dispPc, cur, visited, wg, tokens, tasks

vars == <<world, flags, fn, mainPc, dispPc, cur, visited, wg, tokens, tasks>>

\* A task: kind "node" (ProcessNode) or "leaf" (ProcessLeaf); recv, the URL
\* of the link as the dispatcher received it; l, its Link argument; u, the
\* address it requests; pc; i, the index of the next href; resp, << >> or
\* the outcome of its request; reqs, the methods of the requests it issued;
\* sent, the messages it has sent; out, for each Result it has sent, the
\* number of lines the dispatcher printed for it.
NewTask(kind, recv, l) ==
  [kind |-> kind, recv |-> recv, l |-> l, u |-> String(l.URL), pc |-> "start",
   i |-> 1, resp |-> << >>, reqs |-> << >>, sent |-> << >>, out |-> << >>]

\* Init with the token pool left empty.
InitEmptyPool ==
  /\ world \in Worlds
  /\ flags \in [ok : BOOLEAN, ignore : BOOLEAN, fail : BOOLEAN]
  /\ fn = << >>
  /\ mainPc = "send"
  /\ dispPc = "select"
  /\ cur = << >>
  /\ visited = {}
  /\ wg = 0
  /\ tokens = 0
  /\ tasks = << >>

Init ==
  /\ world \in Worlds
  /\ flags \in [ok : BOOLEAN, ignore : BOOLEAN, fail : BOOLEAN]
  /\ fn = << >>
  /\ mainPc = "send"
  /\ dispPc = "select"
  /\ cur = << >>
  /\ visited = {}
  /\ wg = 0
  /\ tokens = Parallelism
  /\ tasks = << >>

(***************************************************************************)
(* The goroutine calling CrawlPage.                                        *)
(***************************************************************************)

\* links <- &Link{site, site}: the dispatcher receives the seed.
MainSendSeed ==
  /\ mainPc = "send"
  /\ dispPc = "select"
  /\ mainPc' = "wait"
  /\ dispPc' = "link"
  /\ cur' = <<MkLink(Seed(world), Seed(world))>>
  /\ UNCHANGED <<world, flags, fn, visited, wg, tokens, tasks>>

\* wg.Wait() returns when the counter is zero.
MainWait ==
  /\ mainPc = "wait"
  /\ wg = 0
  /\ mainPc' = "returned"
  /\ UNCHANGED <<world, flags, fn, dispPc, cur, visited, wg, tokens, tasks>>

(***************************************************************************)
(* The dispatcher: case l := <-links.                                      *)
(***************************************************************************)

\* The link's address is in visited: continue.
DispatchRevisit ==
  /\ dispPc = "link"
  /\ IsVisited(visited, String(cur[1].URL))
  /\ dispPc' = "select"
  /\ cur' = << >>
  /\ UNCHANGED <<world, flags, fn, mainPc, visited, wg, tokens, tasks>>

\* An internal link: qualify it, wg.Add(1), go ProcessNode, mark visited.
\* DispatchInternal without visited[u] = struct{}{}.
DispatchInternalNoMark ==
  /\ dispPc = "link"
  /\ ~IsVisited(visited, String(cur[1].URL))
  /\ IsInternal(cur[1])
  /\ Len(tasks) < MaxTasks
  /\ LET l == cur[1]
         q == MkLink(QualifyInternalURL(l.Orig, l.URL), l.Orig)
     IN tasks' = Append(tasks, NewTask("node", l.URL, q))
  /\ wg' = wg + 1
  /\ dispPc' = "select"
  /\ cur' = << >>
  /\ UNCHANGED <<world, flags, fn, mainPc, visited, tokens>>

DispatchInternal ==
  /\ dispPc = "link"
  /\ ~IsVisited(visited, String(cur[1].URL))
  /\ IsInternal(cur[1])
  /\ Len(tasks) < MaxTasks
  /\ LET l == cur[1]
         q == MkLink(QualifyInternalURL(l.Orig, l.URL), l.Orig)
     IN /\ tasks' = Append(tasks, NewTask("node", l.URL, q))
        /\ visited' = visited \cup {String(l.URL)}
  /\ wg' = wg + 1
  /\ dispPc' = "select"
  /\ cur' = << >>
  /\ UNCHANGED <<world, flags, fn, mainPc, tokens>>

\* DispatchExternal without wg.Add(1).
DispatchExternalNoAdd ==
  /\ dispPc = "link"
  /\ ~IsVisited(visited, String(cur[1].URL))
  /\ ~IsInternal(cur[1])
  /\ Len(tasks) < MaxTasks
  /\ tasks' = Append(tasks, NewTask("leaf", cur[1].URL, cur[1]))
  /\ visited' = visited \cup {String(cur[1].URL)}
  /\ dispPc' = "select"
  /\ cur' = << >>
  /\ UNCHANGED <<world, flags, fn, mainPc, wg, tokens>>

\* An external link: wg.Add(1), go ProcessLeaf, mark visited.
DispatchExternal ==
  /\ dispPc = "link"
  /\ ~IsVisited(visited, String(cur[1].URL))
  /\ ~IsInternal(cur[1])
  /\ Len(tasks) < MaxTasks
  /\ tasks' = Append(tasks, NewTask("leaf", cur[1].URL, cur[1]))
  /\ visited' = visited \cup {String(cur[1].URL)}
  /\ wg' = wg + 1
  /\ dispPc' = "select"
  /\ cur' = << >>
  /\ UNCHANGED <<world, flags, fn, mainPc, tokens>>


(***************************************************************************)
(* Tasks.  The channels links, results and done are unbuffered: a send is  *)
(* one step with the dispatcher's receive, which needs the dispatcher in   *)
(* its select.  The dispatcher's handling of a Result (printing) and of a  *)
(* completion signal (wg.Done) is part of that step.                       *)
(***************************************************************************)
\* The dispatcher's case result := <-results: the number of times it prints
\* the Result with error e under the flags f.
PrintsTwice(e, f) ==
  (IF e # NilErr
   THEN IF e.kind = "notcrawlable"
        THEN (IF f.ignore THEN 1 ELSE 0)
        ELSE (IF f.fail THEN 1 ELSE 0)
   ELSE 0)
  + (IF f.ok THEN 1 ELSE 0)

Prints(e, f) ==
  (IF e # NilErr
   THEN IF e.kind = "notcrawlable"
        THEN (IF f.ignore THEN 1 ELSE 0)
        ELSE (IF f.fail THEN 1 ELSE 0)
   ELSE 0)
  + (IF e = NilErr /\ f.ok THEN 1 ELSE 0)

\* A send of message m by task t, received by the dispatcher; a Result is
\* printed or not as it is received.
Send(t, m) ==
  [t EXCEPT !.sent = Append(@, m),
            !.out = IF m.k = "res" THEN Append(@, Prints(m.err, flags)) ELSE @]

Doc(t) == FetchDocument(t.resp[1])

(***************************************************************************)
(* ProcessNode.                                                            *)
(***************************************************************************)

\* NodeAcquire without <-t.
NodeAcquireFree(n) ==
  /\ tasks[n].kind = "node"
  /\ tasks[n].pc = "start"
  /\ LET r == Get(world, tasks[n].u)
     IN tasks' = [tasks EXCEPT ![n] =
          IF r.kind = "reqerr"
          THEN [@ EXCEPT !.pc = "release", !.resp = <<r>>]
          ELSE [@ EXCEPT !.pc = "inflight", !.reqs = Append(@, "GET")]]
  /\ UNCHANGED <<world, flags, fn, mainPc, dispPc, cur, visited, wg, tokens>>

\* <-t, then FetchDocument constructs the request and hands it to the
\* client; a request that cannot be constructed returns at once.
NodeAcquire(n) ==
  /\ tasks[n].kind = "node"
  /\ tasks[n].pc = "start"
  /\ tokens > 0
  /\ tokens' = tokens - 1
  /\ LET r == Get(world, tasks[n].u)
     IN tasks' = [tasks EXCEPT ![n] =
          IF r.kind = "reqerr"
          THEN [@ EXCEPT !.pc = "release", !.resp = <<r>>]
          ELSE [@ EXCEPT !.pc = "inflight", !.reqs = Append(@, "GET")]]
  /\ UNCHANGED <<world, flags, fn, mainPc, dispPc, cur, visited, wg>>

\* The client returns: a response or an error.
NodeResponse(n) ==
  /\ tasks[n].kind = "node"
  /\ tasks[n].pc = "inflight"
  /\ tasks' = [tasks EXCEPT ![n] =
       [@ EXCEPT !.pc = "release", !.resp = <<Get(world, tasks[n].u)>>]]
  /\ UNCHANGED <<world, flags, fn, mainPc, dispPc, cur, visited, wg, tokens>>

\* NodeRelease without the token going back to the pool.
NodeReleaseLeak(n) ==
  /\ tasks[n].kind = "node"
  /\ tasks[n].pc = "release"
  /\ tasks' = [tasks EXCEPT ![n] =
       [@ EXCEPT !.pc = IF Doc(tasks[n]).err # NilErr THEN "fetcherr" ELSE "hrefs"]]
  /\ UNCHANGED <<world, flags, fn, mainPc, dispPc, cur, visited, wg, tokens>>

\* t <- struct{}{}; then the test of err.
NodeRelease(n) ==
  /\ tasks[n].kind = "node"
  /\ tasks[n].pc = "release"
  /\ tokens < Parallelism
  /\ tokens' = tokens + 1
  /\ tasks' = [tasks EXCEPT ![n] =
       [@ EXCEPT !.pc = IF Doc(tasks[n]).err # NilErr THEN "fetcherr" ELSE "hrefs"]]
  /\ UNCHANGED <<world, flags, fn, mainPc, dispPc, cur, visited, wg>>

\* res <- &Result{Err: err, Link: l}; return.
NodeReportFetchErr(n) ==
  /\ tasks[n].kind = "node"
  /\ tasks[n].pc = "fetcherr"
  /\ dispPc = "select"
  /\ tasks' = [tasks EXCEPT ![n] =
       [Send(@, Msg("res", Doc(tasks[n]).err, tasks[n].l))
          EXCEPT !.pc = ExitPc("fetcherr")]]
  /\ UNCHANGED <<world, flags, fn, mainPc, dispPc, cur, visited, wg, tokens>>

\* The href the loop of ProcessNode is at.
AtHref(t) == t.kind = "node" /\ t.pc = "hrefs" /\ t.i <= Len(Doc(t).hrefs)

Href(t) == NewLink(Doc(t).hrefs[t.i], t.l.URL)

\* NewLink fails: res <- &Result{Err: err, Link: l}; continue.
NodeReportMalformed(n) ==
  /\ AtHref(tasks[n])
  /\ Href(tasks[n]).err
  /\ dispPc = "select"
  /\ tasks' = [tasks EXCEPT ![n] =
       [Send(@, Msg("res", Err("malformed", 0), tasks[n].l)) EXCEPT !.i = @ + 1]]
  /\ UNCHANGED <<world, flags, fn, mainPc, dispPc, cur, visited, wg, tokens>>

\* Not crawlable: res <- &Result{Err: errNotCrawlable, Link: l}; continue.
NodeReportNotCrawlable(n) ==
  /\ AtHref(tasks[n])
  /\ ~Href(tasks[n]).err
  /\ ~IsCrawlable(Href(tasks[n]).link)
  /\ dispPc = "select"
  /\ tasks' = [tasks EXCEPT ![n] =
       [Send(@, Msg("res", Err("notcrawlable", 0), tasks[n].l)) EXCEPT !.i = @ + 1]]
  /\ UNCHANGED <<world, flags, fn, mainPc, dispPc, cur, visited, wg, tokens>>

\* links <- link: the dispatcher receives the candidate.
NodeSubmitLink(n) ==
  /\ AtHref(tasks[n])
  /\ ~Href(tasks[n]).err
  /\ IsCrawlable(Href(tasks[n]).link)
  /\ dispPc = "select"
  /\ dispPc' = "link"
  /\ cur' = <<Href(tasks[n]).link>>
  /\ tasks' = [tasks EXCEPT ![n] =
       [Send(@, Msg("link", NilErr, Href(tasks[n]).link)) EXCEPT !.i = @ + 1]]
  /\ UNCHANGED <<world, flags, fn, mainPc, visited, wg, tokens>>

\* NodeReportOK without the loop having run to its end.
NodeReportOKEarly(n) ==
  /\ tasks[n].kind = "node"
  /\ tasks[n].pc = "hrefs"
  /\ dispPc = "select"
  /\ tasks' = [tasks EXCEPT ![n] =
       [Send(@, Msg("res", NilErr, tasks[n].l)) EXCEPT !.pc = ExitPc("end")]]
  /\ UNCHANGED <<world, flags, fn, mainPc, dispPc, cur, visited, wg, tokens>>

\* After the loop: res <- &Result{Err: nil, Link: l}.
NodeReportOK(n) ==
  /\ tasks[n].kind = "node"
  /\ tasks[n].pc = "hrefs"
  /\ tasks[n].i > Len(Doc(tasks[n]).hrefs)
  /\ dispPc = "select"
  /\ tasks' = [tasks EXCEPT ![n] =
       [Send(@, Msg("res", NilErr, tasks[n].l)) EXCEPT !.pc = ExitPc("end")]]
  /\ UNCHANGED <<world, flags, fn, mainPc, dispPc, cur, visited, wg, tokens>>

(***************************************************************************)
(* ProcessLeaf.                                                            *)
(***************************************************************************)

\* newGetRequest, then c.Do(request); a request that cannot be constructed
\* is reported at once.
LeafRequest(n) ==
  /\ tasks[n].kind = "leaf"
  /\ tasks[n].pc = "start"
  /\ LET r == Get(world, tasks[n].u)
     IN tasks' = [tasks EXCEPT ![n] =
          IF r.kind = "reqerr"
          THEN [@ EXCEPT !.pc = "reqerr", !.resp = <<r>>]
          ELSE [@ EXCEPT !.pc = "inflight", !.reqs = Append(@, "GET")]]
  /\ UNCHANGED <<world, flags, fn, mainPc, dispPc, cur, visited, wg, tokens>>

\* The client returns: a response or an error.
LeafResponse(n) ==
  /\ tasks[n].kind = "leaf"
  /\ tasks[n].pc = "inflight"
  /\ tasks' = [tasks EXCEPT ![n] =
       [@ EXCEPT !.pc = "report", !.resp = <<Get(world, tasks[n].u)>>]]
  /\ UNCHANGED <<world, flags, fn, mainPc, dispPc, cur, visited, wg, tokens>>

\* res <- &Result{Err: err, Link: l}; return (the request was not made).
LeafReportRequestErr(n) ==
  /\ tasks[n].kind = "leaf"
  /\ tasks[n].pc = "reqerr"
  /\ dispPc = "select"
  /\ tasks' = [tasks EXCEPT ![n] =
       [Send(@, Msg("res", LeafErr(tasks[n].resp[1]), tasks[n].l))
          EXCEPT !.pc = ExitPc("reqerr")]]
  /\ UNCHANGED <<world, flags, fn, mainPc, dispPc, cur, visited, wg, tokens>>

\* The Result for the client's error, the status or the success.
LeafReport(n) ==
  /\ tasks[n].kind = "leaf"
  /\ tasks[n].pc = "report"
  /\ dispPc = "select"
  /\ tasks' = [tasks EXCEPT ![n] =
       [Send(@, Msg("res", LeafErr(tasks[n].resp[1]), tasks[n].l))
          EXCEPT !.pc = ExitPc("end")]]
  /\ UNCHANGED <<world, flags, fn, mainPc, dispPc, cur, visited, wg, tokens>>

(***************************************************************************)
(* The deferred done <- struct{}{} of both task functions; the dispatcher  *)
(* receives it and calls wg.Done().                                        *)
(***************************************************************************)
TaskDone(n) ==
  /\ tasks[n].pc = "defer"
  /\ dispPc = "select"
  /\ wg' = wg - 1
  /\ tasks' = [tasks EXCEPT ![n] =
       [Send(@, Msg("done", NilErr, tasks[n].l)) EXCEPT !.pc = "finished"]]
  /\ UNCHANGED <<world, flags, fn, mainPc, dispPc, cur, visited, tokens>>

Next ==
  \/ MainSendSeed
  \/ MainWait
  \/ DispatchRevisit
  \/ DispatchInternal
  \/ DispatchExternal
  \/ \E n \in DOMAIN tasks : NodeAcquire(n)
  \/ \E n \in DOMAIN tasks : NodeResponse(n)
  \/ \E n \in DOMAIN tasks : NodeRelease(n)
  \/ \E n \in DOMAIN tasks : NodeReportFetchErr(n)
  \/ \E n \in DOMAIN tasks : NodeReportMalformed(n)
  \/ \E n \in DOMAIN tasks : NodeReportNotCrawlable(n)
  \/ \E n \in DOMAIN tasks : NodeSubmitLink(n)
  \/ \E n \in DOMAIN tasks : NodeReportOK(n)
  \/ \E n \in DOMAIN tasks : LeafRequest(n)
  \/ \E n \in DOMAIN tasks : LeafResponse(n)
  \/ \E n \in DOMAIN tasks : LeafReportRequestErr(n)
  \/ \E n \in DOMAIN tasks : LeafReport(n)
  \/ \E n \in DOMAIN tasks : TaskDone(n)

Spec == Init /\ [][Next]_vars

\* Every goroutine that can take a step is scheduled, and every request the
\* client makes returns (with a response, an error or its timeout).
FairSpec == Spec /\ WF_vars(Next)

TypeOK ==
  /\ world \in Worlds
  /\ mainPc \in {"send", "wait", "returned"}
  /\ dispPc \in {"select", "link"}
  /\ Len(cur) = IF dispPc = "link" THEN 1 ELSE 0
  /\ wg \in 0..MaxTasks
  /\ tokens \in 0..Parallelism
  /\ Len(tasks) <= MaxTasks
  /\ flags \in [ok : BOOLEAN, ignore : BOOLEAN, fail : BOOLEAN]
  /\ fn = << >>


(***************************************************************************)
(* Functions.  ExtractTagAttribute, QualifyInternalURL and the command's   *)
(* main are functions of their arguments; FnSpec applies them to           *)
(* arguments drawn from the sets below, as the tests of the package do:    *)
(* fn is the call, and after the application the call with its result.     *)
(***************************************************************************)

\* The number of children of the document node and the number of positional
\* arguments the arguments are drawn up to.
MaxChildren == 2

MaxArgs == 2

\* html.Node: Type, Data (the tag name of an element), Attr and the
\* children in sibling order.
Node(type, data, attr, children) ==
  [Type |-> type, Data |-> data, Attr |-> attr, Children |-> children]

Attribute(key, val) == [Key |-> key, Val |-> val]

Text == Node("Text", "text", << >>, << >>)

Element(tag, attr, children) == Node("Element", tag, attr, children)

Document(children) == Node("Document", "", << >>, children)

A(val) == Element("a", <<Attribute("href", val)>>, <<Text>>)

RECURSIVE ExtractTagAttributeElementsOnly(_, _, _)
RECURSIVE ExtractTagAttribute(_, _, _)

\* ExtractTagAttribute with the document node not descended into.
ExtractTagAttributeElementsOnly(node, tagName, attrName) ==
  IF node.Type # "Element" THEN << >>
  ELSE LET sel == SelectSeq(node.Attr, LAMBDA a : a.Key = attrName)
           own == IF node.Data = tagName
                  THEN [i \in 1..Len(sel) |-> sel[i].Val]
                  ELSE << >>
           c == node.Children
           kids[k \in 0..Len(c)] ==
             IF k = 0 THEN << >>
             ELSE kids[k - 1] \o ExtractTagAttributeElementsOnly(c[k], tagName, attrName)
       IN own \o kids[Len(c)]

ExtractTagAttribute(node, tagName, attrName) ==
  IF node.Type # "Element" /\ node.Type # "Document" THEN << >>
  ELSE LET sel == SelectSeq(node.Attr, LAMBDA a : a.Key = attrName)
           own == IF node.Data = tagName
                  THEN [i \in 1..Len(sel) |-> sel[i].Val]
                  ELSE << >>
           c == node.Children
           kids[k \in 0..Len(c)] ==
             IF k = 0 THEN << >>
             ELSE kids[k - 1] \o ExtractTagAttribute(c[k], tagName, attrName)
       IN own \o kids[Len(c)]

\* The document of TestExtractTagAttribute as html.Parse builds it.
htmlDocument ==
  Document(<<
    Node("Doctype", "html", << >>, << >>),
    Element("html", << >>, <<
      Element("head", << >>, <<Text, Element("title", << >>, <<Text>>), Text>>),
      Text,
      Element("body", << >>, <<
        Text,
        Element("div", << >>, <<
          Text,
          Element("p", << >>, <<A("https://github.com")>>),
          Text,
          Element("p", << >>, <<A("https://paedubucher.ch")>>),
          Text>>),
        Text>>)>>)>>)

hrefs == <<"https://github.com", "https://paedubucher.ch">>

\* The subtrees the other documents are built from.
Subtrees ==
  {Text,
   Node("Comment", "a", << >>, << >>),
   A("u1"),
   A("u2"),
   Element("a", <<Attribute("title", "t"), Attribute("href", "u1")>>, << >>),
   Element("a", << >>, <<Text>>),
   Element("link", <<Attribute("href", "u3")>>, << >>),
   Element("p", << >>, <<A("u2"), Text, A("u1")>>),
   Element("div", <<Attribute("href", "u4")>>,
           <<Element("p", << >>, <<A("u1")>>), A("u3")>>)}

Documents ==
  {htmlDocument} \cup
  UNION {{Document(c) : c \in [1..k -> Subtrees]} : k \in 0..MaxChildren}

TagAttributes == {<<"a", "href">>, <<"a", "title">>, <<"link", "href">>, <<"p", "href">>}

\* The table of TestQualifyInternalRootURL.
Paedu == <<"https", ":", "//", "paedubucher.ch">>

Cheese == <<"/", "articles", "/", "eat-more-cheese.html">>

Milk == <<"/", "articles", "/", "drink-more-milk">>

Manifesto == <<"milk-manifesto.html">>

qualifyURLTests ==
  {[pageURL |-> Paedu \o <<"/">>, linkURL |-> Cheese,
    expectedURL |-> Paedu \o Cheese],
   [pageURL |-> Paedu, linkURL |-> Cheese,
    expectedURL |-> Paedu \o Cheese],
   [pageURL |-> Paedu \o Milk \o <<"/">>, linkURL |-> Manifesto,
    expectedURL |-> Paedu \o Milk \o <<"/">> \o Manifesto],
   [pageURL |-> Paedu \o Milk, linkURL |-> Manifesto,
    expectedURL |-> Paedu \o Milk \o <<"/">> \o Manifesto]}

\* The page and link addresses QualifyInternalURL is applied to: those of
\* the table and others of the same site.
PageAddrs ==
  {t.pageURL : t \in qualifyURLTests} \cup
  {Paedu \o <<"/", "a">>, Paedu \o <<"/", "a", "/">>,
   <<"http", ":", "//", "localhost", ":", "8000">>,
   <<"http", ":", "//", "localhost", ":", "8000", "/">>,
   <<"http", ":", "//", "localhost", ":", "8000", "/", "a", "/", "b">>}

LinkAddrs ==
  {t.linkURL : t \in qualifyURLTests} \cup
  {<< >>, <<"/">>, <<"b">>, <<"b", "/">>, <<"b", "/", "c">>, <<"/", "b">>,
   <<"?", "q">>, <<"b", "?", "q">>, <<"#", "f">>, <<"/", "b", "#", "f">>,
   Paedu \o <<"/", "x">>, <<"//", "paedubucher.ch", "/", "x">>}

\* strings.HasPrefix(addr, "http://") and strings.HasPrefix(addr, "https://").
HasSchemePrefix(addr, scheme) ==
  Len(addr) >= 3 /\ addr[1] = scheme /\ addr[2] = ":" /\ addr[3] = "//"

\* main without the scheme put in front of the address.
MainNoPrefix(args) ==
  IF Len(args) # 1 THEN [exit |-> 1, crawl |-> << >>]
  ELSE LET pageURL == ParseURL(args[1])
       IN IF pageURL.err THEN [exit |-> 1, crawl |-> << >>]
          ELSE [exit |-> 0, crawl |-> <<pageURL.url>>]

\* main of the command: the exit code and the seed CrawlPage is called
\* with (<< >> when it is not called).
Main(args) ==
  IF Len(args) # 1 THEN [exit |-> 1, crawl |-> << >>]
  ELSE LET pageAddr == IF ~HasSchemePrefix(args[1], "http")
                          /\ ~HasSchemePrefix(args[1], "https")
                       THEN <<"http", ":", "//">> \o args[1]
                       ELSE args[1]
           pageURL == ParseURL(pageAddr)
       IN IF pageURL.err THEN [exit |-> 1, crawl |-> << >>]
          ELSE [exit |-> 0, crawl |-> <<pageURL.url>>]

\* The positional arguments main is run with.
SeedArgs ==
  {<<"h">>, <<"h", "/", "a">>, <<"localhost", ":", "8000">>,
   <<"http", ":", "//", "h">>, <<"https", ":", "//", "h", "/", "a">>,
   <<BadEscape>>, <<"http", ":", "//", "h", "/", BadEscape>>}

ArgLists == UNION {[1..k -> SeedArgs] : k \in 0..MaxArgs}

\* The calls: the function and its arguments.
ExtractCalls ==
  {[f |-> "ExtractTagAttribute", node |-> d, tagName |-> ta[1], attrName |-> ta[2]] :
     d \in Documents, ta \in TagAttributes}

QualifyCalls ==
  {[f |-> "QualifyInternalURL", page |-> ParseURL(pa).url, link |-> ParseURL(la).url] :
     pa \in PageAddrs, la \in LinkAddrs}

MainCalls == {[f |-> "main", args |-> args] : args \in ArgLists}

\* A call that has returned carries its result in out.
Returned(call) == "out" \in DOMAIN call

Return(call, out) == [k \in DOMAIN call \cup {"out"} |-> IF k = "out" THEN out ELSE call[k]]

FnInit ==
  /\ world = "e2e"
  /\ flags = [ok |-> FALSE, ignore |-> FALSE, fail |-> TRUE]
  /\ fn \in ExtractCalls \cup QualifyCalls \cup MainCalls
  /\ mainPc = "send"
  /\ dispPc = "select"
  /\ cur = << >>
  /\ visited = {}
  /\ wg = 0
  /\ tokens = Parallelism
  /\ tasks = << >>

ApplyExtract ==
  /\ ~Returned(fn)
  /\ fn.f = "ExtractTagAttribute"
  /\ fn' = Return(fn, ExtractTagAttribute(fn.node, fn.tagName, fn.attrName))
  /\ UNCHANGED <<world, flags, mainPc, dispPc, cur, visited, wg, tokens, tasks>>

ApplyQualify ==
  /\ ~Returned(fn)
  /\ fn.f = "QualifyInternalURL"
  /\ fn' = Return(fn, QualifyInternalURL(fn.page, fn.link))
  /\ UNCHANGED <<world, flags, mainPc, dispPc, cur, visited, wg, tokens, tasks>>

ApplyMain ==
  /\ ~Returned(fn)
  /\ fn.f = "main"
  /\ fn' = Return(fn, Main(fn.args))
  /\ UNCHANGED <<world, flags, mainPc, dispPc, cur, visited, wg, tokens, tasks>>

FnNext == ApplyExtract \/ ApplyQualify \/ ApplyMain

FnSpec == FnInit /\ [][FnNext]_vars


(***************************************************************************)
(* Notions the properties are stated with.                                 *)
(***************************************************************************)
Kind(n, k) == SelectSeq(tasks[n].sent, LAMBDA m : m.k = k)

Finished(n) == tasks[n].pc = "finished"

\* The crawl is over: the seed was received and every spawned task has
\* signalled completion.
AllDone ==
  /\ mainPc # "send"
  /\ dispPc = "select"
  /\ Len(tasks) >= 1
  /\ \A n \in DOMAIN tasks : Finished(n)

\* The number of HTTP requests open.
InFlight == Cardinality({n \in DOMAIN tasks : tasks[n].pc = "inflight"})

\* The absolute address a crawlable link found on a page denotes.
Target(l) ==
  IF IsInternal(l) THEN String(QualifyInternalURL(l.Orig, l.URL)) ELSE String(l.URL)

\* Every Result of the run, as <<address of its Link, error>>.
AllResults ==
  UNION {{<<String(Kind(n, "res")[j].link.URL), Kind(n, "res")[j].err>> :
            j \in 1..Len(Kind(n, "res"))} : n \in DOMAIN tasks}

(***************************************************************************)
(* C1.  Dedup: no address is requested by more than one spawned task,      *)
(* whatever the pages and the textual forms of the hrefs it was found      *)
(* through, the seed's address included.                                   *)
(***************************************************************************)
C1_Dedup ==
  \A i, j \in DOMAIN tasks : i # j => tasks[i].u # tasks[j].u

(***************************************************************************)
(* C2.  CrawlPage returns only after the seed's task was spawned and       *)
(* counted and has signalled completion.                                   *)
(***************************************************************************)
C2_ReturnAfterSeed ==
  mainPc = "returned" => (Len(tasks) >= 1 /\ Finished(1))

(***************************************************************************)
(* C3.  Termination: under fair scheduling and with every request          *)
(* returning, the run reaches and stays in the state where every spawned   *)
(* task has signalled completion, the counter is zero and CrawlPage has    *)
(* returned, for cyclic link graphs too.                                   *)
(***************************************************************************)
Terminated == AllDone /\ wg = 0 /\ mainPc = "returned"

C3_Termination == <>[]Terminated

\* A terminated crawl of the cyclic graph of world "dirs"
\* (/d1/ -> /d1/p -> /d1/).
C3_Witness ==
  /\ Terminated
  /\ world = "dirs"
  /\ \E n \in DOMAIN tasks : tasks[n].u = Site \o <<"/", "d1", "/", "p">>

(***************************************************************************)
(* C4.  Bounded concurrency: the number of HTTP requests open, of node     *)
(* and of leaf tasks together, is at most the size of the token pool.      *)
(***************************************************************************)
C4_BoundedConcurrency == InFlight <= Parallelism

(***************************************************************************)
(* C5.  Completeness of discovery: when the crawl is over, every crawlable *)
(* href of every page that was fetched successfully has had the absolute   *)
(* address it denotes requested by a task that reported a Result.          *)
(***************************************************************************)
C5_Completeness ==
  AllDone =>
    \A n \in DOMAIN tasks :
      (tasks[n].kind = "node" /\ Doc(tasks[n]).err = NilErr) =>
        \A i \in 1..Len(Doc(tasks[n]).hrefs) :
          LET h == NewLink(Doc(tasks[n]).hrefs[i], tasks[n].l.URL)
          IN (~h.err /\ IsCrawlable(h.link)) =>
               \E m \in DOMAIN tasks :
                 tasks[m].u = Target(h.link) /\ Len(Kind(m, "res")) >= 1

(***************************************************************************)
(* C6.  End to end: the crawl of world "e2e" (a seed page with two         *)
(* internal links, one answering 200 and one 404, and an external link     *)
(* answering 405 to HEAD and 200 to GET) emits exactly four Results: OK    *)
(* for the seed, OK for the 200 page, a failure carrying 404 for the other *)
(* page, OK for the external link.  In every world, a finished node task   *)
(* whose GET was answered with a status outside 2xx has sent a failure.    *)
(***************************************************************************)
C6_EndToEnd ==
  /\ (AllDone /\ world = "e2e") =>
       /\ Len(tasks) = 4
       /\ \A n \in DOMAIN tasks : Len(Kind(n, "res")) = 1
       /\ AllResults = {<<Site \o <<"/">>, NilErr>>,
                        <<Site \o <<"/", "ok">>, NilErr>>,
                        <<Site \o <<"/", "missing">>, Err("status", StatusNotFound)>>,
                        <<Ext \o <<"/">>, NilErr>>}
  /\ \A n \in DOMAIN tasks :
       (/\ tasks[n].kind = "node"
        /\ Finished(n)
        /\ tasks[n].resp[1].kind = "http"
        /\ tasks[n].resp[1].status \notin 200..299)
       => \E j \in 1..Len(Kind(n, "res")) :
            /\ Kind(n, "res")[j].link = tasks[n].l
            /\ Kind(n, "res")[j].err # NilErr

(***************************************************************************)
(* C7.  External links are checked but not followed: a node task exists    *)
(* only for a link whose host is the host of the page it was found on or   *)
(* is empty, its address has the seed's scheme and host, and a leaf task   *)
(* sends no candidate link.                                                *)
(***************************************************************************)
C7_ExternalNotFollowed ==
  \A n \in DOMAIN tasks :
    /\ tasks[n].kind = "node" =>
         /\ \/ tasks[n].recv.Host.name = tasks[n].l.Orig.Host.name
            \/ tasks[n].recv.Host.name = ""
         /\ tasks[n].l.URL.Scheme = Seed(world).Scheme
         /\ tasks[n].l.URL.Host = Seed(world).Host
    /\ tasks[n].kind = "leaf" => Kind(n, "link") = << >>

\* A finished crawl with an external link checked by a leaf task and an
\* internal link followed by a node task other than the seed's.
C7_Witness ==
  /\ AllDone
  /\ \E n \in DOMAIN tasks : tasks[n].kind = "leaf" /\ tasks[n].recv.Host.name = "x"
  /\ \E n \in DOMAIN tasks : n > 1 /\ tasks[n].kind = "node"

(***************************************************************************)
(* C8.  Leaf check protocol: the first request of a leaf task is a HEAD;   *)
(* a GET follows if and only if the HEAD was answered 405, at most once.   *)
(***************************************************************************)
C8_HeadThenGet ==
  \A n \in DOMAIN tasks :
    (tasks[n].kind = "leaf" /\ tasks[n].reqs # << >>) =>
      /\ tasks[n].reqs[1] = "HEAD"
      /\ Len(tasks[n].reqs) <= 2
      /\ Len(tasks[n].reqs) = 2 =>
           /\ tasks[n].reqs[2] = "GET"
           /\ Get(world, tasks[n].u).head = StatusMethodNotAllowed

(***************************************************************************)
(* C9.  Every spawned task sends exactly one completion signal, as its     *)
(* last message, on every exit path: a task that has returned has sent     *)
(* one, a task that has not has sent none.                                 *)
(***************************************************************************)
C9_OneDoneLast ==
  \A n \in DOMAIN tasks :
    LET s == tasks[n].sent
    IN /\ Len(Kind(n, "done")) = (IF Finished(n) THEN 1 ELSE 0)
       /\ Finished(n) => s[Len(s)].k = "done"
       /\ \A j \in 1..(Len(s) - 1) : s[j].k # "done"

\* A finished crawl in which a node task returned after a failed fetch, a
\* node task returned at the end of its hrefs, and leaf tasks returned
\* after a transport error, a status failure and a success.
C9_Witness ==
  /\ AllDone
  /\ \E n \in DOMAIN tasks :
       tasks[n].kind = "node" /\ Doc(tasks[n]).err # NilErr
  /\ \E n \in DOMAIN tasks :
       tasks[n].kind = "node" /\ Doc(tasks[n]).err = NilErr
  /\ \A k \in {"transport", "status", "nil"} :
       \E n \in DOMAIN tasks :
         tasks[n].kind = "leaf" /\ LeafErr(tasks[n].resp[1]).kind = k

(***************************************************************************)
(* C10.  A leaf task emits exactly one Result, for its Link, before its    *)
(* completion signal: success if and only if the response status is 2xx,   *)
(* otherwise a failure carrying the status, or a failure carrying the      *)
(* transport error when the request failed.                                *)
(***************************************************************************)
C10_LeafResult ==
  \A n \in DOMAIN tasks :
    (tasks[n].kind = "leaf" /\ Finished(n)) =>
      LET r == tasks[n].resp[1]
          s == tasks[n].sent
      IN /\ Len(s) = 2
         /\ s[1].k = "res"
         /\ s[1].link = tasks[n].l
         /\ r.kind = "http" =>
              IF r.status \in 200..299
              THEN s[1].err = NilErr
              ELSE s[1].err = Err("status", r.status)
         /\ r.kind = "neterr" => s[1].err = Err("transport", 0)

(***************************************************************************)
(* C11.  A node task whose fetch fails sends one failure Result and no     *)
(* candidate link, then its completion signal; a node task whose fetch     *)
(* succeeds sends one success Result for its own Link, after one message   *)
(* for each extracted href (the candidate or its rejection), then its      *)
(* completion signal.                                                      *)
(***************************************************************************)
FetchFails(n) == Get(world, tasks[n].u).kind \in {"reqerr", "neterr"}

C11_NodeProtocol ==
  \A n \in DOMAIN tasks :
    tasks[n].kind = "node" =>
      LET s == tasks[n].sent
          found == Get(world, tasks[n].u).hrefs
      IN /\ FetchFails(n) =>
              /\ Len(Kind(n, "link")) = 0
              /\ Len(s) >= 1 => (s[1].k = "res" /\ s[1].err # NilErr
                                   /\ s[1].link = tasks[n].l)
              /\ Len(s) >= 2 => s[2].k = "done"
              /\ Len(s) <= 2
              /\ Finished(n) => Len(s) = 2
         /\ ~FetchFails(n) =>
              /\ \A j \in 1..Len(s) :
                   /\ j <= Len(found) =>
                        (s[j].k = "link" \/ (s[j].k = "res" /\ s[j].err # NilErr))
                   /\ j = Len(found) + 1 => s[j] = Msg("res", NilErr, tasks[n].l)
                   /\ j = Len(found) + 2 => s[j].k = "done"
              /\ Len(s) <= Len(found) + 2
              /\ Finished(n) => Len(s) = Len(found) + 2

\* Both cases have run to their end: a node whose fetch failed and a node
\* that submitted candidate links have finished.
C11_Witness ==
  /\ \E n \in DOMAIN tasks :
       tasks[n].kind = "node" /\ Finished(n) /\ FetchFails(n)
  /\ \E n \in DOMAIN tasks :
       /\ tasks[n].kind = "node" /\ Finished(n) /\ ~FetchFails(n)
       /\ Len(Kind(n, "link")) >= 2

(***************************************************************************)
(* C12.  An extracted href that fails address parsing, or whose scheme is  *)
(* none of http, https and empty, is not sent to the dispatcher: its       *)
(* address is not in the visited set, no task is spawned (and counted) for *)
(* it and no request is made for it; the node sends one Result for it,     *)
(* malformed or not crawlable, and goes on to the next href.               *)
(***************************************************************************)
Schemes == {"http", "https", ""}

C12_RejectedHref ==
  /\ \A n \in DOMAIN tasks :
       tasks[n].recv.Scheme \in Schemes /\ tasks[n].l.URL.Scheme \in Schemes
  /\ \A u \in visited : ParseURL(u).url.Scheme \in Schemes
  /\ cur # << >> => cur[1].URL.Scheme \in Schemes
  /\ \A n \in DOMAIN tasks :
       (tasks[n].kind = "node" /\ ~FetchFails(n)) =>
         LET found == Get(world, tasks[n].u).hrefs
             s == tasks[n].sent
         IN \A j \in 1..Len(found) :
              LET p == ParseURL(found[j])
              IN /\ (j <= Len(s) /\ p.err) =>
                      (s[j].k = "res" /\ s[j].err = Err("malformed", 0))
                 /\ (j <= Len(s) /\ ~p.err /\ p.url.Scheme \notin Schemes) =>
                      (s[j].k = "res" /\ s[j].err = Err("notcrawlable", 0))
                 /\ (Finished(n) /\ ~p.err /\ p.url.Scheme \notin Schemes) =>
                      /\ String(p.url) \notin visited
                      /\ \A m \in DOMAIN tasks : tasks[m].recv # p.url

\* A node has gone through a malformed href and a mailto: href and then a
\* crawlable one, and has finished.
C12_Witness ==
  \E n \in DOMAIN tasks :
    /\ tasks[n].kind = "node" /\ Finished(n)
    /\ \E j \in 1..Len(tasks[n].sent) : tasks[n].sent[j].err = Err("malformed", 0)
    /\ \E j \in 1..Len(tasks[n].sent) : tasks[n].sent[j].err = Err("notcrawlable", 0)
    /\ tasks[n].sent[Len(tasks[n].sent) - 2].k = "link"

(***************************************************************************)
(* C13.  Silent drop of revisits: while the dispatcher handles a link      *)
(* whose address is in the visited set no task is spawned, no Result is    *)
(* sent or printed, and the visited set and the counter keep their values; *)
(* of the discoveries of one address only the first one received has a     *)
(* task.                                                                   *)
(***************************************************************************)
Revisit == dispPc = "link" /\ String(cur[1].URL) \in visited

C13_SilentDrop ==
  /\ [](\A i, j \in DOMAIN tasks :
          i # j => String(tasks[i].recv) # String(tasks[j].recv))
  /\ [][Revisit =>
          /\ Len(tasks') = Len(tasks)
          /\ \A n \in DOMAIN tasks :
               tasks'[n].sent = tasks[n].sent /\ tasks'[n].out = tasks[n].out
          /\ visited' = visited
          /\ wg' = wg]_vars

\* The crawl is over and one address was sent to the dispatcher twice, by
\* two tasks: one of them was dropped.
C13_Witness ==
  /\ AllDone
  /\ \E n, m \in DOMAIN tasks :
       /\ n # m
       /\ \E j \in 1..Len(Kind(n, "link")) : \E k \in 1..Len(Kind(m, "link")) :
            Kind(n, "link")[j].link.URL = Kind(m, "link")[k].link.URL

(***************************************************************************)
(* C14.  Failures are link-scoped and never retried: a task whose request  *)
(* fails, or is answered with a status other than 2xx, makes at most that  *)
(* one request, sends one failure Result for its Link and then its         *)
(* completion signal; and when the crawl is over every task has sent its   *)
(* Result and its completion signal.                                       *)
(***************************************************************************)
Failed(r) == r.kind \in {"reqerr", "neterr"} \/ r.status \notin 200..299

C14_LinkScopedFailure ==
  /\ \A n \in DOMAIN tasks :
       (Finished(n) /\ Failed(tasks[n].resp[1])) =>
         /\ Len(tasks[n].reqs) <= 1
         /\ Len(tasks[n].sent) = 2
         /\ tasks[n].sent[1].k = "res"
         /\ tasks[n].sent[1].err # NilErr
         /\ tasks[n].sent[1].link = tasks[n].l
         /\ tasks[n].sent[2].k = "done"
  /\ \A n \in DOMAIN tasks : Len(tasks[n].reqs) <= 1
  /\ mainPc = "returned" /\ wg = 0 /\ dispPc = "select" =>
       \A n \in DOMAIN tasks : Finished(n) /\ Len(Kind(n, "res")) >= 1

(***************************************************************************)
(* C15.  Reporter visibility: every Result the dispatcher receives is      *)
(* printed at most once, and is printed exactly when it has no error and   *)
(* ok is set, or its error is errNotCrawlable and ignore is set, or it has *)
(* another error and fail is set; the step that handles a Result leaves    *)
(* the visited set and the counter as they are.                            *)
(***************************************************************************)
Visible(r) ==
  \/ r.err = NilErr /\ flags.ok
  \/ r.err = Err("notcrawlable", 0) /\ flags.ignore
  \/ r.err # NilErr /\ r.err # Err("notcrawlable", 0) /\ flags.fail

ResultHandled ==
  \E n \in DOMAIN tasks : Len(Kind(n, "res"))' > Len(Kind(n, "res"))

C15_ReporterVisibility ==
  /\ [](\A n \in DOMAIN tasks :
          /\ Len(tasks[n].out) = Len(Kind(n, "res"))
          /\ \A j \in 1..Len(tasks[n].out) :
               /\ tasks[n].out[j] \in {0, 1}
               /\ tasks[n].out[j] = 1 <=> Visible(Kind(n, "res")[j]))
  /\ [][ResultHandled => (visited' = visited /\ wg' = wg)]_vars

\* With ok and fail set and ignore not, a success and a malformed href were
\* printed and a not crawlable href was not.
C15_Witness ==
  /\ flags = [ok |-> TRUE, ignore |-> FALSE, fail |-> TRUE]
  /\ \E n \in DOMAIN tasks :
       LET r == Kind(n, "res")
       IN \E i, j, k \in 1..Len(r) :
            /\ r[i].err = NilErr /\ tasks[n].out[i] = 1
            /\ r[j].err = Err("malformed", 0) /\ tasks[n].out[j] = 1
            /\ r[k].err = Err("notcrawlable", 0) /\ tasks[n].out[k] = 0

(***************************************************************************)
(* C16.  QualifyInternalURL(page, link) has page's scheme and host; its    *)
(* path is link's path when that starts with "/", and otherwise page's     *)
(* path, then a "/" unless page's path ends with one, then link's path;    *)
(* for the rows of the test table it is the expected URL.                  *)
(***************************************************************************)
C16_Qualify ==
  (Returned(fn) /\ fn.f = "QualifyInternalURL") =>
    /\ fn.out.Scheme = fn.page.Scheme
    /\ fn.out.Host = fn.page.Host
    /\ HasPrefix(fn.link.Path, "/") => fn.out.Path = fn.link.Path
    /\ ~HasPrefix(fn.link.Path, "/") =>
         /\ HasSuffix(fn.page.Path, "/") =>
              fn.out.Path = fn.page.Path \o fn.link.Path
         /\ ~HasSuffix(fn.page.Path, "/") =>
              fn.out.Path = fn.page.Path \o <<"/">> \o fn.link.Path
    /\ \A t \in qualifyURLTests :
         (fn.page = ParseURL(t.pageURL).url /\ fn.link = ParseURL(t.linkURL).url)
           => String(fn.out) = t.expectedURL

\* The fourth row of the table was applied: a relative link found on a page
\* whose path does not end with "/".
C16_Witness ==
  /\ Returned(fn)
  /\ fn.f = "QualifyInternalURL"
  /\ fn.page = ParseURL(Paedu \o Milk).url
  /\ fn.link = ParseURL(Manifesto).url
  /\ String(fn.out) = Paedu \o Milk \o <<"/">> \o Manifesto

(***************************************************************************)
(* C17.  ExtractTagAttribute returns the values of the attribute of the    *)
(* elements with the tag name, listed in document (pre-order) order, and   *)
(* nothing else; for the test document it returns its two hrefs in         *)
(* document order.                                                         *)
(***************************************************************************)
RECURSIVE PreOrder(_)
PreOrder(node) ==
  LET c == node.Children
      below[k \in 0..Len(c)] ==
        IF k = 0 THEN << >> ELSE below[k - 1] \o PreOrder(c[k])
  IN <<node>> \o below[Len(c)]

ValuesOf(node, tagName, attrName) ==
  IF node.Type = "Element" /\ node.Data = tagName
  THEN LET sel == SelectSeq(node.Attr, LAMBDA a : a.Key = attrName)
       IN [i \in 1..Len(sel) |-> sel[i].Val]
  ELSE << >>

InDocumentOrder(root, tagName, attrName) ==
  LET nodes == PreOrder(root)
      upTo[k \in 0..Len(nodes)] ==
        IF k = 0 THEN << >>
        ELSE upTo[k - 1] \o ValuesOf(nodes[k], tagName, attrName)
  IN upTo[Len(nodes)]

C17_Extract ==
  (Returned(fn) /\ fn.f = "ExtractTagAttribute") =>
    /\ fn.out = InDocumentOrder(fn.node, fn.tagName, fn.attrName)
    /\ (fn.node = htmlDocument /\ fn.tagName = "a" /\ fn.attrName = "href")
         => fn.out = hrefs

\* The application of the test.
C17_Witness ==
  /\ Returned(fn)
  /\ fn.f = "ExtractTagAttribute"
  /\ fn.node = htmlDocument
  /\ fn.tagName = "a"
  /\ fn.attrName = "href"
  /\ fn.out = hrefs

(***************************************************************************)
(* C18.  The command exits with code 1 and starts no crawl when it has not *)
(* exactly one positional argument or the seed address does not parse;     *)
(* otherwise it crawls the seed, with http:// put in front of an address   *)
(* that starts with neither http:// nor https://, and exits with code 0.   *)
(***************************************************************************)
WithScheme(addr) ==
  IF HasSchemePrefix(addr, "http") \/ HasSchemePrefix(addr, "https")
  THEN addr
  ELSE <<"http", ":", "//">> \o addr

C18_CommandLine ==
  (Returned(fn) /\ fn.f = "main") =>
    IF Len(fn.args) # 1 \/ ParseURL(WithScheme(fn.args[1])).err
    THEN fn.out.exit = 1 /\ fn.out.crawl = << >>
    ELSE /\ fn.out.exit = 0
         /\ fn.out.crawl = <<ParseURL(WithScheme(fn.args[1])).url>>
         /\ fn.out.crawl[1].Scheme \in {"http", "https"}
         /\ fn.out.crawl[1].Host # NoHost

\* A seed given without a scheme was crawled.
C18_Witness ==
  /\ Returned(fn)
  /\ fn.f = "main"
  /\ fn.args = << <<"localhost", ":", "8000">> >>
  /\ fn.out.exit = 0
  /\ String(fn.out.crawl[1]) = <<"http", ":", "//", "localhost", ":", "8000">>

(***************************************************************************)
(* C19.  The WaitGroup counter is the number of tasks spawned whose        *)
(* completion signal the dispatcher has not received; it is never          *)
(* negative, and it is at least 1 while a task is running or a link sent   *)
(* by a task is being handled.                                             *)
(***************************************************************************)
Running == {n \in DOMAIN tasks : ~Finished(n)}

C19_Outstanding ==
  /\ wg = Cardinality(Running)
  /\ wg >= 0
  /\ (Running # {} \/ (dispPc = "link" /\ Len(tasks) >= 1)) => wg >= 1

\* The seed's task has signalled completion while a task it discovered is
\* the only one still running.
C19_Witness ==
  /\ Len(tasks) >= 2
  /\ Finished(1)
  /\ wg = 1
  /\ Cardinality(Running) = 1

(***************************************************************************)
(* C20.  Deadlock freedom: a task that holds a token is not waiting for    *)
(* one, and in no state with the counter above zero is every goroutine     *)
(* blocked.                                                                *)
(***************************************************************************)
Holders ==
  {n \in DOMAIN tasks :
     tasks[n].kind = "node" /\ tasks[n].pc \in {"inflight", "release"}}

Waiting == {n \in DOMAIN tasks : tasks[n].kind = "node" /\ tasks[n].pc = "start"}

C20_DeadlockFree ==
  /\ Holders \cap Waiting = {}
  /\ wg > 0 => ENABLED Next

\* The pool is empty, a node waits for a token and the holders are in
\* their requests.
C20_Witness ==
  /\ wg > 0
  /\ tokens = 0
  /\ Waiting # {}
  /\ Cardinality(Holders) = Parallelism

(***************************************************************************)
(* C21.  A token is out of the pool only for an HTTP call: the tokens out  *)
(* of the pool are no more than the tasks between the start and the end of *)
(* their call, and every call that is open has its token.                  *)
(***************************************************************************)
InCall == {n \in DOMAIN tasks : tasks[n].pc \in {"inflight", "release"}}

C21_TokenOnlyForCall ==
  /\ Parallelism - tokens <= Cardinality(InCall)
  /\ InFlight <= Parallelism - tokens

(***************************************************************************)
(* C22.  Once the counter is zero and wg.Wait has returned, no task is     *)
(* spawned, no request is open or started and no Result is printed.        *)
(***************************************************************************)
WaitReturned == wg = 0 /\ mainPc = "returned"

C22_QuietAfterReturn ==
  [][WaitReturned =>
       /\ InFlight = 0
       /\ Len(tasks') = Len(tasks)
       /\ \A n \in DOMAIN tasks :
            tasks'[n].reqs = tasks[n].reqs /\ tasks'[n].out = tasks[n].out]_vars

(***************************************************************************)
(* C23.  Every member of the visited set is an absolute address, and the   *)
(* address each task requests is a member: the key recorded at admission   *)
(* is the qualified address.                                               *)
(***************************************************************************)
IsAbsolute(u) == u.Scheme # "" /\ Hostname(u) # ""

C23_VisitedQualified ==
  /\ \A a \in visited : IsAbsolute(ParseURL(a).url)
  /\ \A n \in DOMAIN tasks : tasks[n].u \in visited

(***************************************************************************)
(* C24.  The Link of every task, node or leaf, has an absolute address:    *)
(* a scheme and a host.                                                    *)
(***************************************************************************)
C24_AbsoluteLinks ==
  \A n \in DOMAIN tasks : IsAbsolute(tasks[n].l.URL)

(***************************************************************************)
(* C25.  The dispatcher's step on a link that is not in the visited set    *)
(* adds its address to the set, adds one to the counter and spawns one     *)
(* task: a node if the link's host is that of the page it was found on or  *)
(* is empty, a leaf otherwise; no other step changes the set, raises the   *)
(* counter or spawns a task.                                               *)
(***************************************************************************)
Admission == dispPc = "link" /\ dispPc' = "select" /\ String(cur[1].URL) \notin visited

C25_Admission ==
  [][/\ Admission =>
          /\ visited' = visited \cup {String(cur[1].URL)}
          /\ wg' = wg + 1
          /\ Len(tasks') = Len(tasks) + 1
          /\ \A n \in DOMAIN tasks : tasks'[n] = tasks[n]
          /\ tasks'[Len(tasks')].recv = cur[1].URL
          /\ tasks'[Len(tasks')].pc = "start"
          /\ tasks'[Len(tasks')].kind =
               IF \/ Hostname(cur[1].URL) = Hostname(cur[1].Orig)
                  \/ Hostname(cur[1].URL) = ""
               THEN "node" ELSE "leaf"
     /\ ~Admission =>
          /\ visited' = visited
          /\ wg' <= wg
          /\ Len(tasks') = Len(tasks)]_vars

\* Links of both kinds were admitted: the seed's page led to a node and to
\* a leaf, and each address admitted is in the visited set.
C25_Witness ==
  /\ Len(tasks) >= 3
  /\ \E n \in DOMAIN tasks : n > 1 /\ tasks[n].kind = "node"
  /\ \E n \in DOMAIN tasks : tasks[n].kind = "leaf"
  /\ \A n \in DOMAIN tasks : String(tasks[n].recv) \in visited
  /\ Cardinality(visited) = Len(tasks)

(***************************************************************************)
(* C26.  The Result a node sends for a malformed or not crawlable href has *)
(* that href as its Link, not the node's own Link, so that at most one     *)
(* Result of the node carries the node's own Link.                         *)
(***************************************************************************)
C26_RejectedHrefLink ==
  \A n \in DOMAIN tasks :
    tasks[n].kind = "node" =>
      /\ \A j \in 1..Len(tasks[n].sent) :
           (tasks[n].sent[j].k = "res"
              /\ tasks[n].sent[j].err.kind \in {"malformed", "notcrawlable"})
             => tasks[n].sent[j].link # tasks[n].l
      /\ Len(SelectSeq(Kind(n, "res"), LAMBDA m : m.link = tasks[n].l)) <= 1

(***************************************************************************)
(* C27.  When CrawlPage has returned every task spawned has sent its       *)
(* Results and its completion signal, and the dispatcher has handled       *)
(* them: none is still to come.                                            *)
(***************************************************************************)
C27_ResultsBeforeReturn ==
  mainPc = "returned" =>
    \A n \in DOMAIN tasks :
      /\ tasks[n].pc = "finished"
      /\ Len(Kind(n, "res")) >= 1
      /\ Len(tasks[n].out) = Len(Kind(n, "res"))

(***************************************************************************)
(* C28.  Token conservation: the tokens in the pool and the tokens held    *)
(* (by nodes between <-t and t <-) are Parallelism together; a node that   *)
(* is to put its token back finds room in the pool; and when the crawl     *)
(* has terminated the pool is full.                                        *)
(***************************************************************************)
C28_TokenConservation ==
  /\ tokens + Cardinality(Holders) = Parallelism
  /\ tokens \in 0..Parallelism
  /\ \A n \in DOMAIN tasks :
       (tasks[n].kind = "node" /\ tasks[n].pc = "release") => ENABLED NodeRelease(n)
  /\ Terminated => tokens = Parallelism

\* A crawl in which three nodes took and returned a token has terminated
\* with the pool full.
C28_Witness ==
  /\ Terminated
  /\ tokens = Parallelism
  /\ Cardinality({n \in DOMAIN tasks :
                    tasks[n].kind = "node" /\ Len(tasks[n].resp) = 1}) >= 3

====
